---- MODULE Spec2Model ----
(***************************************************************************)
(* A model of the Anki package reader (package anki): the tables of the    *)
(* embedded database, the reconciliation queries of anki.go, the value     *)
(* coercions applied by StructScan, the cursor wrappers, and the handle:   *)
(* opening an archive, reading its media members, and releasing it.        *)
(***************************************************************************)
EXTENDS Integers, Sequences, FiniteSets, TLC

\* ------------------------------------------------------------------ bounds
MaxID == 2
MaxGraves == 2
MaxMedia == 2
MaxLen == 3

IDs == 1..MaxID

\* graves.type: 0 = card, 1 = note, 2 = deck
GraveTypes == {0, 1, 2}

\* The media members of an archive are named by numbers; member k stands
\* for the k-th of them.
MediaKeys == 1..MaxMedia

\* The file names the media map gives them, and one it never gives.
MediaNames == {"a.png", "b.png"}

UnlistedName == "c.png"

VARIABLES
    archive,     \* the input: the file at the path, or the bytes, given to Read*
    apkg,        \* the *Apkg the Read* call returned, with its *DB
    scratch,     \* the files this process has created under /tmp that exist
    closed,      \* how the last Apkg.Close on the handle ended: "no" before any
    graves,      \* table graves: a sequence of rows [oid, type] (no key, rows may repeat)
    notes,       \* table notes: id -> row
    cards,       \* table cards: id -> row
    revlog,      \* table revlog: id -> row
    col,         \* the singleton row of table col
    notesCur,    \* the *Notes cursor last returned by Apkg.Notes
    cardsCur,    \* the *Cards cursor last returned by Apkg.Cards
    reviewsCur,  \* the *Reviews cursor last returned by Apkg.Reviews
    ret,         \* what the last call returned
    scanSrc      \* the source value (src) handed to a Scan method called on its own

vars == <<archive, apkg, scratch, closed, graves, notes, cards, revlog, col,
         notesCur, cardsCur, reviewsCur, ret, scanSrc>>

handle == <<archive, apkg, scratch, closed>>

tables == <<graves, notes, cards, revlog, col>>

\* ------------------------------------------------------------- SQL values
\* A source value as the driver or encoding/json hands it to Scan: NULL, an
\* int64, a float64, a string or a []byte. A float64 is given by its value
\* in thousandths; a string that a Scan method reads into is a sequence of
\* bytes, as is a []byte.
Null == [k |-> "null"]

Text(t) == [k |-> "text", v |-> t]

Bytes(b) == [k |-> "bytes", v |-> b]

Int64(n) == [k |-> "int64", v |-> n]

Float64Milli(m) == [k |-> "float64", milli |-> m]

\* The float64 with the integral value n.
Float64(n) == Float64Milli(n * 1000)

\* Go's integer division and remainder, which truncate toward zero.
GoDiv(a, b) == IF a >= 0 THEN a \div b ELSE -((-a) \div b)

GoMod(a, b) == a - b * GoDiv(a, b)

\* The conversion int64(f) of a float64: the fraction is discarded.
Int64OfFloat64(f) == GoDiv(f.milli, 1000)

\* A Go pointer field after StructScan: nil, or a pointer to a scanned value.
Nil == [k |-> "nil"]

Ptr(x) == [k |-> "ptr", v |-> x]

\* ------------------------------------------------------------ strings
\* The bytes of the strings below: the unit separator, space, '+', '-',
\* '1', '2', 'a', 'b'.
UnitSeparator == 31

Space == 32

Plus == 43

Minus == 45

Digit0 == 48

Digit9 == 57

Chars == {UnitSeparator, Space, Plus, Minus, 49, 50, 97, 98}

\* strconv.ParseUint(s, 10, 64) from byte i on, n being the value so far:
\* every byte must be a decimal digit.
RECURSIVE ParseUintFrom(_, _, _)
ParseUintFrom(s, i, n) ==
    IF i > Len(s) THEN [err |-> FALSE, v |-> n]
    ELSE IF s[i] < Digit0 \/ s[i] > Digit9 THEN [err |-> TRUE, v |-> 0]
    ELSE ParseUintFrom(s, i + 1, n * 10 + (s[i] - Digit0))

ParseUint(s) ==
    IF s = <<>> THEN [err |-> TRUE, v |-> 0] ELSE ParseUintFrom(s, 1, 0)

\* strconv.ParseInt accepting no sign.
ParseInt_Unsigned(s) == ParseUint(s)

\* strconv.ParseInt(s, 10, 64): an optional sign, then ParseUint.
ParseInt(s) ==
    IF s = <<>> THEN [err |-> TRUE, v |-> 0]
    ELSE IF s[1] = Plus THEN ParseUint(Tail(s))
    ELSE IF s[1] = Minus
    THEN [err |-> ParseUint(Tail(s)).err, v |-> -ParseUint(Tail(s)).v]
    ELSE ParseUint(s)

\* strings.IndexByte: the first position of c in s, 0 when there is none.
Index(s, c) ==
    IF \E i \in 1..Len(s) : s[i] = c
    THEN CHOOSE i \in 1..Len(s) : s[i] = c /\ \A j \in 1..(i - 1) : s[j] # c
    ELSE 0

\* A split that keeps no empty piece, as strings.FieldsFunc does.
RECURSIVE Split_NoEmpty(_, _)
Split_NoEmpty(s, sep) ==
    IF Index(s, sep) = 0 THEN (IF s = <<>> THEN <<>> ELSE <<s>>)
    ELSE (IF Index(s, sep) = 1 THEN <<>>
          ELSE <<SubSeq(s, 1, Index(s, sep) - 1)>>)
         \o Split_NoEmpty(SubSeq(s, Index(s, sep) + 1, Len(s)), sep)

\* strings.Split(s, sep) for a one-byte separator: cut at each separator,
\* keeping empty pieces; a string without separator is its only piece.
RECURSIVE Split(_, _)
Split(s, sep) ==
    IF Index(s, sep) = 0 THEN <<s>>
    ELSE <<SubSeq(s, 1, Index(s, sep) - 1)>>
         \o Split(SubSeq(s, Index(s, sep) + 1, Len(s)), sep)

\* Go's < on strings: bytewise lexicographic.
RECURSIVE StringLess(_, _)
StringLess(a, b) ==
    IF b = <<>> THEN FALSE
    ELSE IF a = <<>> THEN TRUE
    ELSE IF a[1] # b[1] THEN a[1] < b[1]
    ELSE StringLess(Tail(a), Tail(b))

\* One step of the sort: x put before the first element of the sorted a
\* that is not less than it.
RECURSIVE SortInsert(_, _)
SortInsert(x, a) ==
    IF a = <<>> THEN <<x>>
    ELSE IF StringLess(a[1], x) THEN <<a[1]>> \o SortInsert(x, Tail(a))
    ELSE <<x>> \o a

\* Tags.Scan leaving the pieces in the order of the string.
SortStrings_Unsorted(a) == a

\* sort.Strings: the strings in increasing order.
RECURSIVE SortStrings(_)
SortStrings(a) ==
    IF a = <<>> THEN <<>> ELSE SortInsert(a[1], SortStrings(Tail(a)))

\* ------------------------------------------------------------ coercions
\* ID.Scan: a numeric source gives the ID; NULL returns nil and leaves the
\* zero value.
IDScan(src) ==
    IF src.k = "float64" THEN [err |-> FALSE, v |-> Int64OfFloat64(src)]
    ELSE IF src.k = "int64" THEN [err |-> FALSE, v |-> src.v]
    ELSE IF src.k = "text"
    THEN [err |-> ParseInt(src.v).err,
          v   |-> IF ParseInt(src.v).err THEN 0 ELSE ParseInt(src.v).v]
    ELSE IF src.k = "null" THEN [err |-> FALSE, v |-> 0]
    ELSE [err |-> TRUE, v |-> 0]

\* TimestampSeconds.Scan: the instant, in seconds since the epoch.
TimestampSecondsScan(src) ==
    IF src.k = "float64"
    THEN [err |-> FALSE, set |-> TRUE, v |-> Int64OfFloat64(src)]
    ELSE IF src.k = "int64" THEN [err |-> FALSE, set |-> TRUE, v |-> src.v]
    ELSE IF src.k = "null" THEN [err |-> FALSE, set |-> FALSE, v |-> 0]
    ELSE [err |-> TRUE, set |-> FALSE, v |-> 0]

\* scanInt64 reading NULL as zero.
scanInt64_NullZero(src) ==
    IF src.k = "float64" THEN [err |-> FALSE, v |-> Int64OfFloat64(src)]
    ELSE IF src.k = "int64" THEN [err |-> FALSE, v |-> src.v]
    ELSE IF src.k = "null" THEN [err |-> FALSE, v |-> 0]
    ELSE [err |-> TRUE, v |-> 0]

\* scanInt64: numeric sources only.
scanInt64(src) ==
    IF src.k = "float64" THEN [err |-> FALSE, v |-> Int64OfFloat64(src)]
    ELSE IF src.k = "int64" THEN [err |-> FALSE, v |-> src.v]
    ELSE [err |-> TRUE, v |-> 0]

\* DurationSeconds.Scan: the duration, in seconds.
DurationSecondsScan(src) ==
    [err |-> scanInt64(src).err, v |-> scanInt64(src).v]

\* DurationMilliseconds.Scan: the duration, in milliseconds.
DurationMillisecondsScan(src) ==
    [err |-> scanInt64(src).err, v |-> scanInt64(src).v]

\* database/sql's assignment to a pointer field (*T): NULL sets the pointer
\* to nil, anything else allocates a T and scans into it.
ScanPtrTimestampSeconds(src) ==
    IF src.k = "null" THEN [err |-> FALSE, v |-> Nil]
    ELSE [err |-> TimestampSecondsScan(src).err,
          v |-> Ptr(TimestampSecondsScan(src).v)]

ScanPtrDurationSeconds(src) ==
    IF src.k = "null" THEN [err |-> FALSE, v |-> Nil]
    ELSE [err |-> DurationSecondsScan(src).err,
          v |-> Ptr(DurationSecondsScan(src).v)]

\* DurationMinutes.Scan: the duration, in seconds.
DurationMinutesScan(src) ==
    [err |-> scanInt64(src).err, v |-> scanInt64(src).v * 60]

\* DurationDays.Scan: the number of days.
DurationDaysScan(src) ==
    [err |-> scanInt64(src).err, v |-> scanInt64(src).v]

NanosPerSecond == 1000000000

\* time.Unix(sec, nsec): the instant sec seconds and nsec nanoseconds after
\* the epoch, with nsec brought into [0, 1e9).
timeUnix(sec, nsec) ==
    IF nsec < 0 \/ nsec >= NanosPerSecond
    THEN LET n == GoDiv(nsec, NanosPerSecond)
             r == nsec - n * NanosPerSecond
         IN  IF r < 0
             THEN [sec |-> sec + n - 1, nsec |-> r + NanosPerSecond]
             ELSE [sec |-> sec + n, nsec |-> r]
    ELSE [sec |-> sec, nsec |-> nsec]

\* The zero time.Time a fresh receiver holds.
ZeroTime == [sec |-> 0, nsec |-> 0]

\* TimestampMilliseconds.Scan: time.Unix(ms/1000, ms%1000); NULL returns nil
\* and leaves the receiver as it was.
TimestampMillisecondsScan(src) ==
    LET ms == IF src.k = "float64" THEN Int64OfFloat64(src) ELSE src.v
    IN  IF src.k \in {"float64", "int64"}
        THEN [err |-> FALSE, set |-> TRUE,
              v |-> timeUnix(GoDiv(ms, 1000), GoMod(ms, 1000))]
        ELSE IF src.k = "null" THEN [err |-> FALSE, set |-> FALSE, v |-> ZeroTime]
        ELSE [err |-> TRUE, set |-> FALSE, v |-> ZeroTime]

\* Tags.Scan: the string (or the bytes as a string) split at each space, the
\* pieces sorted.
TagsScan(src) ==
    IF src.k \in {"bytes", "text"}
    THEN [err |-> FALSE, v |-> SortStrings(Split(src.v, Space))]
    ELSE [err |-> TRUE, v |-> <<>>]

\* FieldValues.Scan: the string split at each unit separator.
FieldValuesScan(src) ==
    IF src.k \in {"bytes", "text"}
    THEN [err |-> FALSE, v |-> Split(src.v, UnitSeparator)]
    ELSE [err |-> TRUE, v |-> <<>>]

\* A Scan method called on a fresh receiver with the source scanSrc.
CallIDScan ==
    /\ ret' = [op |-> "ID.Scan", err |-> IDScan(scanSrc).err,
               val |-> IDScan(scanSrc).v]
    /\ UNCHANGED <<scanSrc, handle, tables, notesCur, cardsCur, reviewsCur>>

CallTimestampSecondsScan ==
    /\ ret' = [op |-> "TimestampSeconds.Scan",
               err |-> TimestampSecondsScan(scanSrc).err,
               set |-> TimestampSecondsScan(scanSrc).set,
               val |-> TimestampSecondsScan(scanSrc).v]
    /\ UNCHANGED <<scanSrc, handle, tables, notesCur, cardsCur, reviewsCur>>

CallTimestampMillisecondsScan ==
    /\ ret' = [op |-> "TimestampMilliseconds.Scan",
               err |-> TimestampMillisecondsScan(scanSrc).err,
               set |-> TimestampMillisecondsScan(scanSrc).set,
               val |-> TimestampMillisecondsScan(scanSrc).v]
    /\ UNCHANGED <<scanSrc, handle, tables, notesCur, cardsCur, reviewsCur>>

CallDurationMillisecondsScan ==
    /\ ret' = [op |-> "DurationMilliseconds.Scan",
               err |-> DurationMillisecondsScan(scanSrc).err,
               val |-> DurationMillisecondsScan(scanSrc).v]
    /\ UNCHANGED <<scanSrc, handle, tables, notesCur, cardsCur, reviewsCur>>

CallDurationSecondsScan ==
    /\ ret' = [op |-> "DurationSeconds.Scan",
               err |-> DurationSecondsScan(scanSrc).err,
               val |-> DurationSecondsScan(scanSrc).v]
    /\ UNCHANGED <<scanSrc, handle, tables, notesCur, cardsCur, reviewsCur>>

CallDurationMinutesScan ==
    /\ ret' = [op |-> "DurationMinutes.Scan",
               err |-> DurationMinutesScan(scanSrc).err,
               val |-> DurationMinutesScan(scanSrc).v]
    /\ UNCHANGED <<scanSrc, handle, tables, notesCur, cardsCur, reviewsCur>>

CallDurationDaysScan ==
    /\ ret' = [op |-> "DurationDays.Scan",
               err |-> DurationDaysScan(scanSrc).err,
               val |-> DurationDaysScan(scanSrc).v]
    /\ UNCHANGED <<scanSrc, handle, tables, notesCur, cardsCur, reviewsCur>>

CallTagsScan ==
    /\ ret' = [op |-> "Tags.Scan", err |-> TagsScan(scanSrc).err,
               val |-> TagsScan(scanSrc).v]
    /\ UNCHANGED <<scanSrc, handle, tables, notesCur, cardsCur, reviewsCur>>

CallFieldValuesScan ==
    /\ ret' = [op |-> "FieldValues.Scan", err |-> FieldValuesScan(scanSrc).err,
               val |-> FieldValuesScan(scanSrc).v]
    /\ UNCHANGED <<scanSrc, handle, tables, notesCur, cardsCur, reviewsCur>>

\* ------------------------------------------------------------ the joins
\* The rows of graves that satisfy `g.oid = key AND g.type = t`.
GraveMatches(key, t) ==
    SelectSeq(graves, LAMBDA g : g.oid = key /\ g.type = t)

\* `row LEFT JOIN graves g ON g.oid = key AND g.type = t`: one output row per
\* matching graves row, and one row with g all NULL when none matches.
LeftJoinGraves(row, key, t) ==
    IF GraveMatches(key, t) = <<>>
    THEN << [l |-> row, goid |-> Null] >>
    ELSE [i \in 1..Len(GraveMatches(key, t)) |->
             [l |-> row, goid |-> Int64(GraveMatches(key, t)[i].oid)]]

\* `WHERE g.oid IS NULL`
WhereGraveIsNull(rows) == SelectSeq(rows, LAMBDA r : r.goid = Null)

\* ------------------------------------------------------------ cursors
\* A sqlx.Rows: st is "none" before the query, "open", or "closed"; rows are
\* the result rows in the query's order; pos is the row Next last moved to
\* (0 before the first Next); done is set once Next has returned false.
NoCursor == [st |-> "none", rows |-> <<>>, pos |-> 0, done |-> FALSE]

\* The wrapper around the nil *sqlx.Rows that Queryx returns with an error.
NilRows == [st |-> "nilrows", rows |-> <<>>, pos |-> 0, done |-> FALSE]

OpenCursor(rows) == [st |-> "open", rows |-> rows, pos |-> 0, done |-> FALSE]

\* sql.Rows.Next: advance, or close the rows at the end and return false.
RowsNext(cur) ==
    IF cur.st = "open" /\ cur.pos < Len(cur.rows)
    THEN [cur EXCEPT !.pos = cur.pos + 1]
    ELSE [cur EXCEPT !.st = "closed", !.done = (cur.st = "open") \/ cur.done]

RowsNextResult(cur) == cur.st = "open" /\ cur.pos < Len(cur.rows)

\* sql.Rows.Scan fails on closed rows and before the first Next.
RowsScannable(cur) == cur.st = "open" /\ cur.pos >= 1

RowsClose(cur) == [cur EXCEPT !.st = "closed"]

\* ------------------------------------------------------------ the handle
\* The name ioutil.TempFile("/tmp", "anki-sqlite3-") gives the scratch file.
TmpName == "/tmp/anki-sqlite3-1"

\* apkg.st is "none" before any Read* call, "nil" when the call returned a
\* nil *Apkg, "live" when it returned a handle. closer is a.closer ("nil",
\* or the archive file "open" or "closed"); media is a.media (Nil, or the
\* index: file name -> member key, 0 for a nil *zip.File); db is a.db (Nil,
\* or the *DB with its tmpFile and its *sqlx.DB "nil", "open" or "closed").
NoHandle == [st |-> "none", closer |-> "nil", media |-> Nil, db |-> Nil]

NilHandle == [st |-> "nil", closer |-> "nil", media |-> Nil, db |-> Nil]

\* What a call that dereferences a nil pointer leaves its caller with.
Panic(in) == [op |-> "panic", in |-> in]

\* The content of archive member k.
MemberBytes(k) == <<k>>

\* zip.OpenReader with a missing file reported as a malformed archive.
ZipOpenReader_NotZip(ar) ==
    IF ar.path \in {"missing", "notzip"} THEN "zip" ELSE "none"

\* zip.OpenReader(f): os.Open's error when there is no file at the path,
\* the format error when the file has no zip directory.
ZipOpenReader(ar) ==
    IF ar.path = "missing" THEN "open"
    ELSE IF ar.path = "notzip" THEN "zip"
    ELSE "none"

\* zip.NewReader(r, size)
ZipNewReader(ar) == IF ar.path = "notzip" THEN "zip" ELSE "none"

\* The media index with each member looked up under the file name instead
\* of the key: no member has such a name.
MediaIndexes_ByName(mediaMap, files) ==
    { [n \in { mediaMap[k] : k \in DOMAIN mediaMap } |-> 0] }

\* The loop `a.media.index[filename] = index.index[idx]` over mediaMap: a key
\* that names no member stores a nil *zip.File, and of several keys with one
\* file name any may be the one kept (Go ranges over the map in an
\* unspecified order): the set of indexes the loop can build.
MediaIndexes(mediaMap, files) ==
    LET names == { mediaMap[k] : k \in DOMAIN mediaMap }
        keep == { f \in [names -> DOMAIN mediaMap] :
                    \A n \in names : mediaMap[f[n]] = n }
    IN  { [n \in names |-> IF f[n] \in files THEN f[n] ELSE 0] : f \in keep }

\* populateIndex without the lookup of collection.anki2.
populateIndex_Unchecked(ar) ==
    IF ar.media = "absent"
    THEN { [err |-> "nomedia", media |-> Nil] }
    ELSE IF ar.media = "badjson"
    THEN { [err |-> "json", media |-> Nil] }
    ELSE { [err |-> "none", media |-> Ptr(ix)] :
             ix \in MediaIndexes(ar.mediaMap, ar.files) }

\* Apkg.populateIndex: collection.anki2 is looked up first, then the member
\* media is read and decoded, and a.media is set last.
populateIndex(ar) ==
    IF ar.sqlite = "absent"
    THEN { [err |-> "nosqlite", media |-> Nil] }
    ELSE IF ar.media = "absent"
    THEN { [err |-> "nomedia", media |-> Nil] }
    ELSE IF ar.media = "badjson"
    THEN { [err |-> "json", media |-> Nil] }
    ELSE { [err |-> "none", media |-> Ptr(ix)] :
             ix \in MediaIndexes(ar.mediaMap, ar.files) }

\* What can go wrong in the environment while the database is set up: no
\* scratch file can be created, or the engine cannot connect.
OpenFaults == {"none", "tempfile", "connect"}

\* dumpToTemp: the copy of a member whose data is damaged fails after the
\* scratch file was created, and the function then returns no name.
dumpToTemp(fault, member) ==
    IF fault = "tempfile"
    THEN [name |-> "", err |-> "tempfile", created |-> {}]
    ELSE IF member # "ok"
    THEN [name |-> "", err |-> "copy", created |-> {TmpName}]
    ELSE [name |-> TmpName, err |-> "none", created |-> {TmpName}]

\* OpenDB: returns the *DB, with tmpFile set, next to every error.
OpenDB(fault, member) ==
    IF dumpToTemp(fault, member).err # "none"
    THEN [db |-> [tmpFile |-> dumpToTemp(fault, member).name, DB |-> "nil"],
          err |-> dumpToTemp(fault, member).err,
          created |-> dumpToTemp(fault, member).created]
    ELSE IF fault = "connect"
    THEN [db |-> [tmpFile |-> dumpToTemp(fault, member).name, DB |-> "nil"],
          err |-> "connect",
          created |-> dumpToTemp(fault, member).created]
    ELSE [db |-> [tmpFile |-> dumpToTemp(fault, member).name, DB |-> "open"],
          err |-> "none",
          created |-> dumpToTemp(fault, member).created]

\* Apkg.open, for one outcome p of populateIndex: a.db is assigned only when
\* OpenDB returned no error.
openWith(ar, fault, p) ==
    IF p.err # "none"
    THEN [err |-> p.err, media |-> p.media, db |-> Nil, created |-> {}]
    ELSE IF ar.sqlite = "unopenable"
    THEN [err |-> "zipopen", media |-> p.media, db |-> Nil, created |-> {}]
    ELSE IF OpenDB(fault, ar.sqlite).err # "none"
    THEN [err |-> OpenDB(fault, ar.sqlite).err, media |-> p.media,
          db |-> Nil, created |-> OpenDB(fault, ar.sqlite).created]
    ELSE [err |-> "none", media |-> p.media,
          db |-> Ptr(OpenDB(fault, ar.sqlite).db),
          created |-> OpenDB(fault, ar.sqlite).created]

\* Apkg.open
open(ar, fault) == { openWith(ar, fault, p) : p \in populateIndex(ar) }

\* ReadFile
ReadFile ==
    /\ apkg.st = "none"
    /\ IF ZipOpenReader(archive) # "none"
       THEN /\ apkg' = NilHandle
            /\ scratch' = scratch
            /\ ret' = [op |-> "ReadFile", err |-> ZipOpenReader(archive),
                       handle |-> FALSE]
       ELSE \E fault \in OpenFaults : \E o \in open(archive, fault) :
            /\ apkg' = [st |-> "live", closer |-> "open",
                        media |-> o.media, db |-> o.db]
            /\ scratch' = scratch \cup o.created
            /\ ret' = [op |-> "ReadFile", err |-> o.err, handle |-> TRUE]
    /\ UNCHANGED <<scanSrc, archive, closed, tables, notesCur, cardsCur, reviewsCur>>

\* ReadReader, called under the name op: there is no file to close.
ReadReaderAs(op) ==
    /\ apkg.st = "none"
    /\ archive.path # "missing"
    /\ IF ZipNewReader(archive) # "none"
       THEN /\ apkg' = NilHandle
            /\ scratch' = scratch
            /\ ret' = [op |-> op, err |-> ZipNewReader(archive),
                       handle |-> FALSE]
       ELSE \E fault \in OpenFaults : \E o \in open(archive, fault) :
            /\ apkg' = [st |-> "live", closer |-> "nil",
                        media |-> o.media, db |-> o.db]
            /\ scratch' = scratch \cup o.created
            /\ ret' = [op |-> op, err |-> o.err, handle |-> TRUE]
    /\ UNCHANGED <<scanSrc, archive, closed, tables, notesCur, cardsCur, reviewsCur>>

ReadReader == ReadReaderAs("ReadReader")

\* ReadBytes wraps the bytes in a reader and calls ReadReader.
ReadBytes == ReadReaderAs("ReadBytes")

\* zipIndex.ReadFile on a.media: a name outside the index is an error; a nil
\* *zip.File in the index is dereferenced by Open; Open fails once the
\* archive file is closed; the error of ReadFrom is dropped.
zipIndexReadFile(index, name, closer) ==
    IF name \notin DOMAIN index
    THEN [status |-> "error", bytes |-> Nil]
    ELSE IF index[name] = 0
    THEN [status |-> "panic", bytes |-> Nil]
    ELSE IF closer = "closed"
    THEN [status |-> "error", bytes |-> Nil]
    ELSE [status |-> "ok", bytes |-> Ptr(MemberBytes(index[name]))]

\* Apkg.ReadMediaFile: a.media is nil when populateIndex failed.
ReadMediaFile ==
    /\ apkg.st # "none"
    /\ \E name \in MediaNames \cup {UnlistedName} :
          ret' = IF apkg.st = "nil" \/ apkg.media = Nil
                 THEN [op |-> "ReadMediaFile", name |-> name,
                       status |-> "panic", bytes |-> Nil]
                 ELSE [op |-> "ReadMediaFile", name |-> name,
                       status |-> zipIndexReadFile(apkg.media.v, name,
                                                   apkg.closer).status,
                       bytes |-> zipIndexReadFile(apkg.media.v, name,
                                                  apkg.closer).bytes]
    /\ UNCHANGED <<scanSrc, handle, tables, notesCur, cardsCur, reviewsCur>>

\* os.Remove finding the file gone whatever the directory holds.
osRemove_Gone(name, files, fault) ==
    [err |-> IF fault THEN "EPERM" ELSE "ENOENT", files |-> files \ {name}]

\* os.Remove(name): fails when the environment refuses it and when there is
\* no such file.
osRemove(name, files, fault) ==
    IF fault THEN [err |-> "EPERM", files |-> files]
    ELSE IF name \notin files THEN [err |-> "ENOENT", files |-> files]
    ELSE [err |-> "none", files |-> files \ {name}]

\* sql.DB.Close: a closed DB returns nil; otherwise the connections' error.
sqlDBClose(st, fault) ==
    IF st = "closed" THEN [err |-> "none", st |-> "closed"]
    ELSE IF fault THEN [err |-> "engine", st |-> "closed"]
    ELSE [err |-> "none", st |-> "closed"]

\* zip.ReadCloser.Close, that is os.File.Close: a closed file returns
\* os.ErrClosed.
zipClose(st, fault) ==
    IF st = "closed" THEN [err |-> "closed", st |-> "closed"]
    ELSE IF fault THEN [err |-> "EIO", st |-> "closed"]
    ELSE [err |-> "none", st |-> "closed"]

\* An error value that is not nil.
IsErr(e) == e \notin {"none", "skipped"}

\* DB.Close: removes tmpFile when it is set (it is never reset), then closes
\* the engine handle when there is one; e is the last error assigned.
DBClose(db, files, rmFault, engFault) ==
    LET rm == IF db.tmpFile # ""
              THEN osRemove(db.tmpFile, files, rmFault)
              ELSE [err |-> "skipped", files |-> files]
        eng == IF db.DB # "nil"
               THEN sqlDBClose(db.DB, engFault)
               ELSE [err |-> "skipped", st |-> db.DB]
    IN  [e      |-> IF IsErr(eng.err) THEN eng.err
                    ELSE IF IsErr(rm.err) THEN rm.err
                    ELSE "none",
         rmErr  |-> rm.err,
         engErr |-> eng.err,
         db     |-> [db EXCEPT !.DB = eng.st],
         files  |-> rm.files]

\* Apkg.Close on a handle whose a.db is nil.
NoDBClose(files) ==
    [e |-> "skipped", rmErr |-> "skipped", engErr |-> "skipped", files |-> files]

\* Apkg.Close: a.db.Close() when a.db is set, then a.closer.Close() when
\* a.closer is set; e is the last error assigned. On a nil *Apkg the read of
\* a.db is a nil dereference.
Close ==
    /\ apkg.st # "none"
    /\ IF apkg.st = "nil"
       THEN /\ ret' = [op |-> "Close", status |-> "panic", err |-> "none",
                       dbErr |-> "skipped", rmErr |-> "skipped",
                       engErr |-> "skipped", zipErr |-> "skipped",
                       prev |-> closed, changed |-> FALSE]
            /\ UNCHANGED <<scanSrc, apkg, scratch, closed>>
       ELSE \E rmFault, engFault, zipFault \in BOOLEAN :
            LET d == IF apkg.db # Nil
                     THEN DBClose(apkg.db.v, scratch, rmFault, engFault)
                     ELSE NoDBClose(scratch)
                z == IF apkg.closer # "nil"
                     THEN zipClose(apkg.closer, zipFault)
                     ELSE [err |-> "skipped", st |-> apkg.closer]
                e == IF IsErr(z.err) THEN z.err
                     ELSE IF IsErr(d.e) THEN d.e
                     ELSE "none"
                after == [apkg EXCEPT
                            !.db = IF apkg.db # Nil THEN Ptr(d.db) ELSE Nil,
                            !.closer = z.st]
            IN  /\ apkg' = after
                /\ scratch' = d.files
                /\ closed' = IF e = "none" THEN "ok" ELSE "err"
                /\ ret' = [op |-> "Close", status |-> "returned", err |-> e,
                           dbErr |-> d.e, rmErr |-> d.rmErr,
                           engErr |-> d.engErr, zipErr |-> z.err,
                           prev |-> closed,
                           changed |-> (after # apkg \/ d.files # scratch)]
    /\ UNCHANGED <<scanSrc, archive, tables, notesCur, cardsCur, reviewsCur>>

\* The *sqlx.DB a query on the handle reaches: "nil" when a, a.db or the
\* embedded *sqlx.DB is nil.
DBState ==
    IF apkg.st # "live" \/ apkg.db = Nil THEN "nil" ELSE apkg.db.v.DB

\* ------------------------------------------------------------ Notes
\* The select list of the notes query, for one joined row.
NotesSelect(j) == [id |-> Int64(j.l.id), mod |-> j.l.mod]

\* SELECT n.id, ... FROM notes n LEFT JOIN graves g ON g.oid=n.id AND g.type=1
\* for one note row (the query has no WHERE clause).
NotesJoin(row) ==
    [i \in 1..Len(LeftJoinGraves(row, row.id, 1)) |->
        NotesSelect(LeftJoinGraves(row, row.id, 1)[i])]

RECURSIVE NotesOrderByIdDesc(_)
NotesOrderByIdDesc(n) ==
    IF n = 0 THEN <<>>
    ELSE (IF n \in DOMAIN notes THEN NotesJoin(notes[n]) ELSE <<>>)
         \o NotesOrderByIdDesc(n - 1)

NotesQuery == NotesOrderByIdDesc(MaxID)

\* StructScan of a result row into a Note: what the columns leave in it.
NoteOf(r) ==
    [ID       |-> IDScan(r.id).v,
     Modified |-> ScanPtrTimestampSeconds(r.mod).v]

\* StructScan of a Note with the error of Scan dropped.
NoteScanErr_Dropped(r) == FALSE

\* The error of StructScan: that of the first column that does not scan.
NoteScanErr(r) == IDScan(r.id).err \/ ScanPtrTimestampSeconds(r.mod).err

ZeroNote == [ID |-> 0, Modified |-> Nil]

\* Apkg.Notes: Queryx on a closed database returns nil rows and an error, and
\* the wrapper is returned with both.
CallNotes ==
    /\ apkg.st # "none"
    /\ IF DBState = "nil"
       THEN /\ ret' = Panic("Notes")
            /\ UNCHANGED notesCur
       ELSE IF DBState = "closed"
       THEN /\ notesCur' = NilRows
            /\ ret' = [op |-> "Notes", err |-> TRUE]
       ELSE /\ notesCur' = OpenCursor(NotesQuery)
            /\ ret' = [op |-> "Notes", err |-> FALSE]
    /\ UNCHANGED <<scanSrc, handle, tables, cardsCur, reviewsCur>>

NotesNext ==
    /\ notesCur.st # "none"
    /\ IF notesCur.st = "nilrows"
       THEN /\ ret' = Panic("Notes.Next")
            /\ UNCHANGED notesCur
       ELSE /\ notesCur' = RowsNext(notesCur)
            /\ ret' = [op |-> "Notes.Next", ok |-> RowsNextResult(notesCur)]
    /\ UNCHANGED <<scanSrc, handle, tables, cardsCur, reviewsCur>>

NotesNote ==
    /\ notesCur.st # "none"
    /\ ret' = IF notesCur.st = "nilrows"
              THEN Panic("Note")
              ELSE IF RowsScannable(notesCur)
              THEN [op |-> "Note",
                    err |-> NoteScanErr(notesCur.rows[notesCur.pos]),
                    val |-> NoteOf(notesCur.rows[notesCur.pos])]
              ELSE [op |-> "Note", err |-> TRUE, val |-> ZeroNote]
    /\ UNCHANGED <<scanSrc, handle, tables, notesCur, cardsCur, reviewsCur>>

NotesClose ==
    /\ notesCur.st # "none"
    /\ IF notesCur.st = "nilrows"
       THEN /\ ret' = Panic("Notes.Close")
            /\ UNCHANGED notesCur
       ELSE /\ notesCur' = RowsClose(notesCur)
            /\ ret' = [op |-> "Notes.Close", err |-> FALSE]
    /\ UNCHANGED <<scanSrc, handle, tables, cardsCur, reviewsCur>>

\* ------------------------------------------------------------ Cards
\* SqlCardDue without the collection's creation time.
SqlCardDue_NoCrt(type, raw) ==
    IF type = 0 THEN Null
    ELSE IF type = 1 THEN Int64(raw)
    ELSE IF type = 2 THEN Int64(raw * 24 * 60 * 60)
    ELSE Null

\* CASE c.type WHEN 0 THEN NULL WHEN 1 THEN raw
\*             WHEN 2 THEN raw*24*60*60+(SELECT crt FROM col) END
\* (used for due and for odue; no ELSE: any other type gives NULL).
SqlCardDue(type, raw) ==
    IF type = 0 THEN Null
    ELSE IF type = 1 THEN Int64(raw)
    ELSE IF type = 2 THEN Int64(raw * 24 * 60 * 60 + col.crt)
    ELSE Null

\* SqlCardIvl without the negation of a negative interval.
SqlCardIvl_NoNegate(ivl) ==
    IF ivl = 0 THEN Null
    ELSE IF ivl < 0 THEN Int64(ivl)
    ELSE Int64(ivl * 24 * 60 * 60)

\* CASE WHEN c.ivl == 0 THEN NULL WHEN c.ivl < 0 THEN -ivl
\*      ELSE c.ivl*24*60*60 END
SqlCardIvl(ivl) ==
    IF ivl = 0 THEN Null
    ELSE IF ivl < 0 THEN Int64(-ivl)
    ELSE Int64(ivl * 24 * 60 * 60)

\* The select list of the cards query, for one joined row.
CardsSelect(j) ==
    [id   |-> Int64(j.l.id),
     mod  |-> j.l.mod,
     type |-> Int64(j.l.type),
     due  |-> SqlCardDue(j.l.type, j.l.due),
     ivl  |-> SqlCardIvl(j.l.ivl),
     odue |-> SqlCardDue(j.l.type, j.l.odue)]

\* CardsJoinWhere with the join on g.oid=c.id alone, whatever g.type.
CardsJoinWhere_AnyType(row) ==
    IF \E i \in DOMAIN graves : graves[i].oid = row.id
    THEN <<>>
    ELSE << [l |-> row, goid |-> Null] >>

\* FROM cards c LEFT JOIN graves g ON g.oid=c.id AND g.type=0
\* WHERE g.oid IS NULL, for one card row.
CardsJoinWhere(row) == WhereGraveIsNull(LeftJoinGraves(row, row.id, 0))

CardsJoin(row) ==
    [i \in 1..Len(CardsJoinWhere(row)) |-> CardsSelect(CardsJoinWhere(row)[i])]

RECURSIVE CardsOrderByIdDesc(_)
CardsOrderByIdDesc(n) ==
    IF n = 0 THEN <<>>
    ELSE (IF n \in DOMAIN cards THEN CardsJoin(cards[n]) ELSE <<>>)
         \o CardsOrderByIdDesc(n - 1)

\* The cards query with `ORDER BY id ASC`.
CardsQuery_Asc ==
    [i \in 1..Len(CardsOrderByIdDesc(MaxID)) |->
        CardsOrderByIdDesc(MaxID)[Len(CardsOrderByIdDesc(MaxID)) + 1 - i]]

CardsQuery == CardsOrderByIdDesc(MaxID)

\* StructScan of a result row into a Card.
CardOf(r) ==
    [ID          |-> IDScan(r.id).v,
     Modified    |-> ScanPtrTimestampSeconds(r.mod).v,
     Type        |-> r.type.v,
     Due         |-> ScanPtrTimestampSeconds(r.due).v,
     Interval    |-> ScanPtrDurationSeconds(r.ivl).v,
     OriginalDue |-> ScanPtrTimestampSeconds(r.odue).v]

\* The error of StructScan: that of the first column that does not scan.
CardScanErr(r) ==
    \/ IDScan(r.id).err
    \/ ScanPtrTimestampSeconds(r.mod).err
    \/ ScanPtrTimestampSeconds(r.due).err
    \/ ScanPtrDurationSeconds(r.ivl).err
    \/ ScanPtrTimestampSeconds(r.odue).err

ZeroCard ==
    [ID |-> 0, Modified |-> Nil, Type |-> 0, Due |-> Nil, Interval |-> Nil,
     OriginalDue |-> Nil]

\* Apkg.Cards: Queryx on a closed database returns nil rows and an error, and
\* the wrapper is returned with both.
CallCards ==
    /\ apkg.st # "none"
    /\ IF DBState = "nil"
       THEN /\ ret' = Panic("Cards")
            /\ UNCHANGED cardsCur
       ELSE IF DBState = "closed"
       THEN /\ cardsCur' = NilRows
            /\ ret' = [op |-> "Cards", err |-> TRUE]
       ELSE /\ cardsCur' = OpenCursor(CardsQuery)
            /\ ret' = [op |-> "Cards", err |-> FALSE]
    /\ UNCHANGED <<scanSrc, handle, tables, notesCur, reviewsCur>>

CardsNext ==
    /\ cardsCur.st # "none"
    /\ IF cardsCur.st = "nilrows"
       THEN /\ ret' = Panic("Cards.Next")
            /\ UNCHANGED cardsCur
       ELSE /\ cardsCur' = RowsNext(cardsCur)
            /\ ret' = [op |-> "Cards.Next", ok |-> RowsNextResult(cardsCur)]
    /\ UNCHANGED <<scanSrc, handle, tables, notesCur, reviewsCur>>

CardsCard ==
    /\ cardsCur.st # "none"
    /\ ret' = IF cardsCur.st = "nilrows"
              THEN Panic("Card")
              ELSE IF RowsScannable(cardsCur)
              THEN [op |-> "Card",
                    err |-> CardScanErr(cardsCur.rows[cardsCur.pos]),
                    val |-> CardOf(cardsCur.rows[cardsCur.pos])]
              ELSE [op |-> "Card", err |-> TRUE, val |-> ZeroCard]
    /\ UNCHANGED <<scanSrc, handle, tables, notesCur, cardsCur, reviewsCur>>

CardsClose ==
    /\ cardsCur.st # "none"
    /\ IF cardsCur.st = "nilrows"
       THEN /\ ret' = Panic("Cards.Close")
            /\ UNCHANGED cardsCur
       ELSE /\ cardsCur' = RowsClose(cardsCur)
            /\ ret' = [op |-> "Cards.Close", err |-> FALSE]
    /\ UNCHANGED <<scanSrc, handle, tables, notesCur, reviewsCur>>

\* ------------------------------------------------------------ Reviews
\* CASE WHEN r.ivl < 0 THEN -ivl ELSE r.ivl*24*60*60 END AS ivl
SqlReviewIvl(ivl) ==
    IF ivl < 0 THEN Int64(-ivl) ELSE Int64(ivl * 24 * 60 * 60)

\* CASE WHEN r.lastIvl < 0 THEN -ivl ELSE r.lastIvl*24*60*60 END AS lastIvl
SqlReviewLastIvl(ivl, lastIvl) ==
    IF lastIvl < 0 THEN Int64(-ivl) ELSE Int64(lastIvl * 24 * 60 * 60)

\* The select list of the revlog query, for one joined row.
ReviewsSelect(j) ==
    [id      |-> Int64(j.l.id),
     cid     |-> Int64(j.l.cid),
     time    |-> j.l.time,
     ivl     |-> SqlReviewIvl(j.l.ivl),
     lastIvl |-> SqlReviewLastIvl(j.l.ivl, j.l.lastIvl)]

\* ReviewsJoinWhere with the join on the review's own id instead of r.cid.
ReviewsJoinWhere_OwnId(row) == WhereGraveIsNull(LeftJoinGraves(row, row.id, 0))

\* FROM revlog r LEFT JOIN graves g ON g.oid=r.cid AND g.type=0
\* WHERE g.oid IS NULL, for one revlog row.
ReviewsJoinWhere(row) == WhereGraveIsNull(LeftJoinGraves(row, row.cid, 0))

ReviewsJoin(row) ==
    [i \in 1..Len(ReviewsJoinWhere(row)) |->
        ReviewsSelect(ReviewsJoinWhere(row)[i])]

RECURSIVE ReviewsOrderByIdDesc(_)
ReviewsOrderByIdDesc(n) ==
    IF n = 0 THEN <<>>
    ELSE (IF n \in DOMAIN revlog THEN ReviewsJoin(revlog[n]) ELSE <<>>)
         \o ReviewsOrderByIdDesc(n - 1)

ReviewsQuery == ReviewsOrderByIdDesc(MaxID)

\* StructScan of a result row into a Review.
ReviewOf(r) ==
    [Timestamp    |-> ScanPtrTimestampSeconds(r.id).v,
     CardID       |-> IDScan(r.cid).v,
     Interval     |-> DurationSecondsScan(r.ivl).v,
     LastInterval |-> DurationSecondsScan(r.lastIvl).v,
     ReviewTime   |-> DurationMillisecondsScan(r.time).v]

\* The error of StructScan: that of the first column that does not scan.
ReviewScanErr(r) ==
    \/ ScanPtrTimestampSeconds(r.id).err
    \/ IDScan(r.cid).err
    \/ DurationMillisecondsScan(r.time).err
    \/ DurationSecondsScan(r.ivl).err
    \/ DurationSecondsScan(r.lastIvl).err

ZeroReview ==
    [Timestamp |-> Nil, CardID |-> 0, Interval |-> 0, LastInterval |-> 0,
     ReviewTime |-> 0]

\* Apkg.Reviews: Queryx on a closed database returns nil rows and an error, and
\* the wrapper is returned with both.
CallReviews ==
    /\ apkg.st # "none"
    /\ IF DBState = "nil"
       THEN /\ ret' = Panic("Reviews")
            /\ UNCHANGED reviewsCur
       ELSE IF DBState = "closed"
       THEN /\ reviewsCur' = NilRows
            /\ ret' = [op |-> "Reviews", err |-> TRUE]
       ELSE /\ reviewsCur' = OpenCursor(ReviewsQuery)
            /\ ret' = [op |-> "Reviews", err |-> FALSE]
    /\ UNCHANGED <<scanSrc, handle, tables, notesCur, cardsCur>>

ReviewsNext ==
    /\ reviewsCur.st # "none"
    /\ IF reviewsCur.st = "nilrows"
       THEN /\ ret' = Panic("Reviews.Next")
            /\ UNCHANGED reviewsCur
       ELSE /\ reviewsCur' = RowsNext(reviewsCur)
            /\ ret' = [op |-> "Reviews.Next", ok |-> RowsNextResult(reviewsCur)]
    /\ UNCHANGED <<scanSrc, handle, tables, notesCur, cardsCur>>

ReviewsReview ==
    /\ reviewsCur.st # "none"
    /\ ret' = IF reviewsCur.st = "nilrows"
              THEN Panic("Review")
              ELSE IF RowsScannable(reviewsCur)
              THEN [op |-> "Review",
                    err |-> ReviewScanErr(reviewsCur.rows[reviewsCur.pos]),
                    val |-> ReviewOf(reviewsCur.rows[reviewsCur.pos])]
              ELSE [op |-> "Review", err |-> TRUE, val |-> ZeroReview]
    /\ UNCHANGED <<scanSrc, handle, tables, notesCur, cardsCur, reviewsCur>>

ReviewsClose ==
    /\ reviewsCur.st # "none"
    /\ IF reviewsCur.st = "nilrows"
       THEN /\ ret' = Panic("Reviews.Close")
            /\ UNCHANGED reviewsCur
       ELSE /\ reviewsCur' = RowsClose(reviewsCur)
            /\ ret' = [op |-> "Reviews.Close", err |-> FALSE]
    /\ UNCHANGED <<scanSrc, handle, tables, notesCur, cardsCur>>

\* ------------------------------------------------------------ Collection
\* Decks.UnmarshalJSON: the values of the JSON object, keyed by their own id
\* (ID.UnmarshalJSON scans the JSON number, a float64). Go ranges over the
\* temporary map in an unspecified order, so of several values with one id
\* any one may be the one kept: the set of maps the decode can produce.
DecksUnmarshalJSON(tmp) ==
    LET ids == { IDScan(Float64(tmp[k].id)).v : k \in DOMAIN tmp }
        keep == { f \in [ids -> DOMAIN tmp] :
                    \A i \in ids : IDScan(Float64(tmp[f[i]].id)).v = i }
    IN  { [i \in ids |->
            [ID       |-> i,
             ConfigID |-> IDScan(Float64(tmp[f[i]].conf)).v,
             Config   |-> Nil]] : f \in keep }

\* DeckConfigs.UnmarshalJSON keeping the JSON object's keys.
DeckConfigsUnmarshalJSON_ByKey(tmp) ==
    { [k \in DOMAIN tmp |->
        [ID |-> IDScan(Float64(tmp[k].id)).v, Name |-> tmp[k].name]] }

\* DeckConfigs.UnmarshalJSON: likewise.
DeckConfigsUnmarshalJSON(tmp) ==
    LET ids == { IDScan(Float64(tmp[k].id)).v : k \in DOMAIN tmp }
        keep == { f \in [ids -> DOMAIN tmp] :
                    \A i \in ids : IDScan(Float64(tmp[f[i]].id)).v = i }
    IN  { [i \in ids |-> [ID |-> i, Name |-> tmp[f[i]].name]] : f \in keep }

\* A JSON null among the members of the models object decodes to a nil
\* *Model, and the loop's `v.ID` dereferences it.
ModelsNilMember(tmp) == \E k \in DOMAIN tmp : tmp[k] = Null

\* Models.UnmarshalJSON keeping the JSON object's keys.
ModelsUnmarshalJSON_ByKey(tmp) ==
    { [k \in DOMAIN tmp |->
        [ID |-> IDScan(Float64(tmp[k].id)).v, Name |-> tmp[k].name]] }

\* Models.UnmarshalJSON: the same loop, `newMap[v.ID] = v`.
ModelsUnmarshalJSON(tmp) ==
    LET ids == { IDScan(Float64(tmp[k].id)).v : k \in DOMAIN tmp }
        keep == { f \in [ids -> DOMAIN tmp] :
                    \A i \in ids : IDScan(Float64(tmp[f[i]].id)).v = i }
    IN  { [i \in ids |-> [ID |-> i, Name |-> tmp[f[i]].name]] : f \in keep }

\* SELECT oid FROM graves WHERE type=2
DeckGraves == SelectSeq(graves, LAMBDA g : g.type = 2)

\* The loop that fills deletedDecks: `var id *ID; rows.Scan(id)` hands Scan a
\* nil *ID, which database/sql passes to ID.Scan as its receiver; the store
\* `*i = ID(id)` through it is a nil dereference, so the first row of the
\* result panics. With no row the loop body never runs.
ScanDeletedDecks(rows) ==
    IF rows = <<>>
    THEN [panic |-> FALSE, ids |-> {}]
    ELSE [panic |-> TRUE, ids |-> {}]

\* The deck loop finds a deck whose ConfigID is no key of DeckConfigs. The
\* `continue` of the inner loop over deletedDecks continues that inner loop, so
\* the lookup runs for every deck, deleted or not.
ResolveFails(decks, dconf, deleted) ==
    \E i \in DOMAIN decks : decks[i].ConfigID \notin DOMAIN dconf

\* The Decks map after the loop: deleted decks removed, Config set.
ResolveDecks(decks, dconf, deleted) ==
    [i \in (DOMAIN decks) \ deleted |->
        [decks[i] EXCEPT !.Config = Ptr(dconf[decks[i].ConfigID])]]

\* Apkg.Collection: the first query fails on a closed database, and
\* dereferences a nil a.db.
Collection ==
    /\ apkg.st # "none"
    /\ IF \/ DBState = "nil"
          \/ DBState = "open" /\ ScanDeletedDecks(DeckGraves).panic
          \/ DBState = "open" /\ ModelsNilMember(col.models)
       THEN ret' = [op |-> "Collection", status |-> "panic", val |-> Nil]
       ELSE IF DBState = "closed"
       THEN ret' = [op |-> "Collection", status |-> "error", val |-> Nil]
       ELSE \E models \in ModelsUnmarshalJSON(col.models),
               decks \in DecksUnmarshalJSON(col.decks),
               dconf \in DeckConfigsUnmarshalJSON(col.dconf) :
                ret' = IF ResolveFails(decks, dconf, ScanDeletedDecks(DeckGraves).ids)
                       THEN [op |-> "Collection", status |-> "error", val |-> Nil]
                       ELSE [op |-> "Collection", status |-> "ok",
                             val |-> Ptr([Models |-> models,
                                          Decks |-> ResolveDecks(decks, dconf,
                                              ScanDeletedDecks(DeckGraves).ids),
                                          DeckConfigs |-> dconf])]
    /\ UNCHANGED <<scanSrc, handle, tables, notesCur, cardsCur, reviewsCur>>

\* ------------------------------------------------------------ archives
GraveRows == [oid : IDs, type : GraveTypes]

GraveRank(g) == g.oid * 3 + g.type

\* The contents of graves, up to the order of its rows.
GravesDomain ==
    { s \in UNION { [1..n -> GraveRows] : n \in 0..MaxGraves } :
        \A i \in 1..(Len(s) - 1) : GraveRank(s[i]) <= GraveRank(s[i + 1]) }

\* A notes row: its id and its mod column, an integer.
NoteRows(id) == { [id |-> id, mod |-> Int64(1500)] }

NotesDomain ==
    UNION { { f \in [S -> UNION { NoteRows(i) : i \in S }] :
                \A i \in S : f[i].id = i } : S \in SUBSET IDs }

\* Raw (type, due, ivl, odue) of a cards row: every card type (3 stands for a
\* type the CASE does not name), due and odue that differ, and an interval
\* of each sign.
RawCardVals ==
    { [type |-> 0, due |-> 5, ivl |-> 0,  odue |-> 2],
      [type |-> 0, due |-> 0, ivl |-> 3,  odue |-> 0],
      [type |-> 1, due |-> 7, ivl |-> -4, odue |-> 3],
      [type |-> 2, due |-> 2, ivl |-> 3,  odue |-> 1],
      [type |-> 3, due |-> 4, ivl |-> 0,  odue |-> 6] }

CardRows(id) ==
    { [id |-> id, mod |-> Int64(1500), type |-> x.type, due |-> x.due,
       ivl |-> x.ivl, odue |-> x.odue] : x \in RawCardVals }

CardsDomain ==
    UNION { { f \in [S -> UNION { CardRows(i) : i \in S }] :
                \A i \in S : f[i].id = i } : S \in SUBSET IDs }

\* Raw (ivl, lastIvl) of a revlog row.
RawReviewVals ==
    { [ivl |-> -3, lastIvl |-> 2],
      [ivl |-> 2,  lastIvl |-> -5] }

ReviewRows(id) ==
    { [id |-> id, cid |-> c, time |-> Int64(900), ivl |-> x.ivl,
       lastIvl |-> x.lastIvl] : c \in IDs, x \in RawReviewVals }

RevlogDomain ==
    UNION { { f \in [S -> UNION { ReviewRows(i) : i \in S }] :
                \A i \in S : f[i].id = i } : S \in SUBSET IDs }

CrtVals == {1000, 2500}

\* The decks column: a JSON object of decks, each stored under its own id.
DecksJSONDomain ==
    UNION { { f \in [S -> [id : IDs, conf : IDs]] : \A k \in S : f[k].id = k } :
            S \in SUBSET IDs }

\* The dconf column: a JSON object of deck configs under any keys; name
\* stands for the rest of the object's content.
DconfJSONDomain ==
    UNION { { f \in [S -> [id : IDs, name : IDs]] : \A k \in S : f[k].name = k } :
            S \in SUBSET IDs }

\* The models, decks and dconf columns as JSON objects whose members are
\* stored under any keys: a model with any id or a null, a deck with any id
\* and config 1, a deck config with id 1.
KeyedModelsDomain ==
    UNION { [S -> [id : IDs, name : {1}] \cup {Null}] : S \in SUBSET IDs }

KeyedDecksDomain ==
    UNION { [S -> [id : IDs, conf : {1}]] : S \in SUBSET IDs }

KeyedDconfDomain == { f \in DconfJSONDomain : \A k \in DOMAIN f : f[k].id = 1 }

\* Rows of which some hold a value their column's type cannot take: text in
\* mod (notes, cards), NULL in time (revlog).
DecodeNoteRows(id) ==
    { [id |-> id, mod |-> m] : m \in {Int64(1500), Text("yesterday")} }

DecodeNotesDomain ==
    UNION { { f \in [S -> UNION { DecodeNoteRows(i) : i \in S }] :
                \A i \in S : f[i].id = i } : S \in SUBSET IDs }

DecodeCardRows(id) ==
    { [id |-> id, mod |-> m, type |-> 1, due |-> 7, ivl |-> -4, odue |-> 3] :
        m \in {Int64(1500), Text("yesterday")} }

DecodeCardsDomain ==
    UNION { { f \in [S -> UNION { DecodeCardRows(i) : i \in S }] :
                \A i \in S : f[i].id = i } : S \in SUBSET IDs }

DecodeReviewRows(id) ==
    { [id |-> id, cid |-> id, time |-> t, ivl |-> -3, lastIvl |-> 2] :
        t \in {Int64(900), Null} }

DecodeRevlogDomain ==
    UNION { { f \in [S -> UNION { DecodeReviewRows(i) : i \in S }] :
                \A i \in S : f[i].id = i } : S \in SUBSET IDs }

\* The media map: the JSON object of the member media, from member keys to
\* file names.
MediaMaps == UNION { [S -> MediaNames] : S \in SUBSET MediaKeys }

\* An archive with the members collection.anki2 and media, both sound, and
\* no media files.
DefaultArchive ==
    [path |-> "zip", sqlite |-> "ok", media |-> "ok", mediaMap |-> <<>>,
     files |-> {}]

\* The inputs of Read*: no file at the path; a file that is no zip archive;
\* an archive without collection.anki2, or with one that cannot be opened or
\* whose data is damaged; an archive without the member media, or with one
\* that is no JSON object of strings; and sound archives with every media
\* map and every set of media members.
ArchiveDomain ==
    { [DefaultArchive EXCEPT !.path = p] : p \in {"missing", "notzip"} }
    \cup { [DefaultArchive EXCEPT !.sqlite = q, !.media = m] :
             q \in {"absent", "ok", "unopenable", "corrupt"},
             m \in {"absent", "badjson", "ok"} }
    \cup { [DefaultArchive EXCEPT !.mediaMap = mm, !.files = fs] :
             mm \in MediaMaps, fs \in SUBSET MediaKeys }

\* The handle ReadReader returns for DefaultArchive.
OpenedApkg ==
    [st |-> "live", closer |-> "nil", media |-> Ptr(<<>>),
     db |-> Ptr([tmpFile |-> TmpName, DB |-> "open"])]

EmptyTable == <<>>

DefaultCol == [crt |-> 1000, models |-> <<>>, decks |-> <<>>, dconf |-> <<>>]

NoRet == [op |-> "none"]

InitNotes ==
    /\ archive = DefaultArchive
    /\ apkg = OpenedApkg
    /\ scratch = {TmpName}
    /\ closed = "no"
    /\ graves \in GravesDomain
    /\ notes \in NotesDomain
    /\ cards = EmptyTable
    /\ revlog = EmptyTable
    /\ col = DefaultCol
    /\ notesCur = NoCursor
    /\ cardsCur = NoCursor
    /\ reviewsCur = NoCursor
    /\ ret = NoRet
    /\ scanSrc = Null

NextNotes == CallNotes \/ NotesNext \/ NotesNote \/ NotesClose

SpecNotes == InitNotes /\ [][NextNotes]_vars

InitCards ==
    /\ archive = DefaultArchive
    /\ apkg = OpenedApkg
    /\ scratch = {TmpName}
    /\ closed = "no"
    /\ graves \in GravesDomain
    /\ notes = EmptyTable
    /\ cards \in CardsDomain
    /\ revlog = EmptyTable
    /\ col \in [crt : CrtVals, models : {<<>>}, decks : {<<>>}, dconf : {<<>>}]
    /\ notesCur = NoCursor
    /\ cardsCur = NoCursor
    /\ reviewsCur = NoCursor
    /\ ret = NoRet
    /\ scanSrc = Null

NextCards == CallCards \/ CardsNext \/ CardsCard \/ CardsClose

SpecCards == InitCards /\ [][NextCards]_vars

InitReviews ==
    /\ archive = DefaultArchive
    /\ apkg = OpenedApkg
    /\ scratch = {TmpName}
    /\ closed = "no"
    /\ graves \in GravesDomain
    /\ notes = EmptyTable
    /\ cards = EmptyTable
    /\ revlog \in RevlogDomain
    /\ col = DefaultCol
    /\ notesCur = NoCursor
    /\ cardsCur = NoCursor
    /\ reviewsCur = NoCursor
    /\ ret = NoRet
    /\ scanSrc = Null

NextReviews == CallReviews \/ ReviewsNext \/ ReviewsReview \/ ReviewsClose

SpecReviews == InitReviews /\ [][NextReviews]_vars

InitCollection ==
    /\ archive = DefaultArchive
    /\ apkg = OpenedApkg
    /\ scratch = {TmpName}
    /\ closed = "no"
    /\ graves \in GravesDomain
    /\ notes = EmptyTable
    /\ cards = EmptyTable
    /\ revlog = EmptyTable
    /\ col \in [crt : {1000}, models : {<<>>}, decks : DecksJSONDomain,
               dconf : DconfJSONDomain]
    /\ notesCur = NoCursor
    /\ cardsCur = NoCursor
    /\ reviewsCur = NoCursor
    /\ ret = NoRet
    /\ scanSrc = Null

NextCollection == Collection

SpecCollection == InitCollection /\ [][NextCollection]_vars

\* Collection() over a col row whose JSON objects use any keys.
InitKeys ==
    /\ archive = DefaultArchive
    /\ apkg = OpenedApkg
    /\ scratch = {TmpName}
    /\ closed = "no"
    /\ graves = <<>>
    /\ notes = EmptyTable
    /\ cards = EmptyTable
    /\ revlog = EmptyTable
    /\ col \in [crt : {1000}, models : KeyedModelsDomain,
               decks : KeyedDecksDomain, dconf : KeyedDconfDomain]
    /\ notesCur = NoCursor
    /\ cardsCur = NoCursor
    /\ reviewsCur = NoCursor
    /\ ret = NoRet
    /\ scanSrc = Null

NextKeys == Collection

SpecKeys == InitKeys /\ [][NextKeys]_vars

\* The source values handed to a Scan method: NULL, integers, floats with
\* and without a fraction (in thousandths), and every string and []byte of
\* at most MaxLen of the bytes above.
IntSources == {-1500, -1, 0, 2, 1500, 2001}

FloatMilliSources == {-1500, 0, 1500, 2000, 1500000}

Strings == UNION { [1..n -> Chars] : n \in 0..MaxLen }

ScanSources ==
    {Null}
    \cup { Int64(n) : n \in IntSources }
    \cup { Float64Milli(m) : m \in FloatMilliSources }
    \cup { Text(t) : t \in Strings }
    \cup { Bytes(b) : b \in Strings }

\* Each Scan method on its own, over any source value.
InitScan ==
    /\ archive = DefaultArchive
    /\ apkg = NoHandle
    /\ scratch = {}
    /\ closed = "no"
    /\ graves = <<>>
    /\ notes = EmptyTable
    /\ cards = EmptyTable
    /\ revlog = EmptyTable
    /\ col = DefaultCol
    /\ notesCur = NoCursor
    /\ cardsCur = NoCursor
    /\ reviewsCur = NoCursor
    /\ ret = NoRet
    /\ scanSrc \in ScanSources

NextScan ==
    \/ CallIDScan \/ CallTimestampSecondsScan \/ CallTimestampMillisecondsScan
    \/ CallDurationMillisecondsScan \/ CallDurationSecondsScan
    \/ CallDurationMinutesScan \/ CallDurationDaysScan
    \/ CallTagsScan \/ CallFieldValuesScan

SpecScan == InitScan /\ [][NextScan]_vars

\* Opening, reading media from, and releasing any archive.
InitOpen ==
    /\ archive \in ArchiveDomain
    /\ apkg = NoHandle
    /\ scratch = {}
    /\ closed = "no"
    /\ graves = <<>>
    /\ notes = EmptyTable
    /\ cards = EmptyTable
    /\ revlog = EmptyTable
    /\ col = DefaultCol
    /\ notesCur = NoCursor
    /\ cardsCur = NoCursor
    /\ reviewsCur = NoCursor
    /\ ret = NoRet
    /\ scanSrc = Null

NextOpen == ReadFile \/ ReadBytes \/ ReadReader \/ ReadMediaFile \/ Close

SpecOpen == InitOpen /\ [][NextOpen]_vars

\* A whole session with one note, one card and one review: open, any use of
\* the collection and of the cursors, release.
InitSession ==
    /\ archive \in { a \in ArchiveDomain : a.mediaMap = <<>> /\ a.files = {} }
    /\ apkg = NoHandle
    /\ scratch = {}
    /\ closed = "no"
    /\ graves = <<>>
    /\ notes \in { f \in NotesDomain : DOMAIN f = {1} }
    /\ cards \in { f \in CardsDomain : DOMAIN f = {1} /\ f[1].type = 2 }
    /\ revlog \in { f \in RevlogDomain :
                      DOMAIN f = {1} /\ f[1].cid = 1 /\ f[1].ivl < 0 }
    /\ col = DefaultCol
    /\ notesCur = NoCursor
    /\ cardsCur = NoCursor
    /\ reviewsCur = NoCursor
    /\ ret = NoRet
    /\ scanSrc = Null

NextSession ==
    \/ ReadFile \/ ReadBytes \/ ReadReader \/ Close
    \/ NextCollection \/ NextNotes \/ NextCards \/ NextReviews

SpecSession == InitSession /\ [][NextSession]_vars

\* The three cursors over rows of which some do not decode.
InitDecode ==
    /\ archive = DefaultArchive
    /\ apkg = OpenedApkg
    /\ scratch = {TmpName}
    /\ closed = "no"
    /\ graves = <<>>
    /\ notes \in DecodeNotesDomain
    /\ cards \in DecodeCardsDomain
    /\ revlog \in DecodeRevlogDomain
    /\ \/ cards = EmptyTable /\ revlog = EmptyTable
       \/ notes = EmptyTable /\ revlog = EmptyTable
       \/ notes = EmptyTable /\ cards = EmptyTable
    /\ col = DefaultCol
    /\ notesCur = NoCursor
    /\ cardsCur = NoCursor
    /\ reviewsCur = NoCursor
    /\ ret = NoRet
    /\ scanSrc = Null

NextDecode == NextNotes \/ NextCards \/ NextReviews

SpecDecode == InitDecode /\ [][NextDecode]_vars

\* The three cursors over tables of several rows: one table at a time with
\* any tombstones of its own type, and all three tables together with notes
\* 1 and 2, note 1 tombstoned twice.
InitOrder ==
    /\ archive = DefaultArchive
    /\ apkg = OpenedApkg
    /\ scratch = {TmpName}
    /\ closed = "no"
    /\ graves \in GravesDomain
    /\ notes \in NotesDomain
    /\ cards \in { f \in CardsDomain : \A i \in DOMAIN f : f[i].type = 2 }
    /\ revlog \in { f \in RevlogDomain :
                      \A i \in DOMAIN f : f[i].cid = 1 /\ f[i].ivl < 0 }
    /\ \/ /\ cards = EmptyTable /\ revlog = EmptyTable
          /\ \A i \in DOMAIN graves : graves[i].type = 1
       \/ /\ notes = EmptyTable /\ revlog = EmptyTable
          /\ \A i \in DOMAIN graves : graves[i].type = 0
       \/ /\ notes = EmptyTable /\ cards = EmptyTable
          /\ \A i \in DOMAIN graves : graves[i].type = 0
       \/ /\ DOMAIN notes = {1, 2} /\ DOMAIN cards = {1, 2}
          /\ DOMAIN revlog = {1, 2}
          /\ graves = << [oid |-> 1, type |-> 1], [oid |-> 1, type |-> 1] >>
    /\ col = DefaultCol
    /\ notesCur = NoCursor
    /\ cardsCur = NoCursor
    /\ reviewsCur = NoCursor
    /\ ret = NoRet
    /\ scanSrc = Null

NextOrder == NextNotes \/ NextCards \/ NextReviews

SpecOrder == InitOrder /\ [][NextOrder]_vars

\* The whole reader over any of the archives above.
Init ==
    \/ InitNotes \/ InitCards \/ InitReviews \/ InitCollection
    \/ InitOpen \/ InitSession \/ InitDecode \/ InitOrder \/ InitKeys
    \/ InitScan

Next ==
    \/ NextNotes \/ NextCards \/ NextReviews \/ NextCollection
    \/ NextOpen \/ NextScan

Spec == Init /\ [][Next]_vars

\* ------------------------------------------------------------ tombstones
\* id is recorded in graves with type discriminator t.
Tombstoned(id, t) ==
    \E i \in DOMAIN graves : graves[i].oid = id /\ graves[i].type = t

\* The records a cursor has yielded so far: those of the rows Next stepped on.
Yielded(cur) == 1..cur.pos

\* C1: no record yielded by the Notes() cursor has an ID that is the oid of a
\* graves row with type 1.
C1_NotesExcludeTombstoned ==
    (ret.op = "Note" /\ ~ret.err) => ~Tombstoned(ret.val.ID, 1)

\* C2: the Cards() cursor yields exactly one record for every cards row whose
\* id has no graves row (oid = id, type = 0), and none for a card that has
\* one; graves rows of type 1 or 2 with that oid exclude nothing.
C2_CardsExactlyNonTombstoned ==
    /\ \A i \in Yielded(cardsCur) :
          /\ CardOf(cardsCur.rows[i]).ID \in DOMAIN cards
          /\ ~Tombstoned(CardOf(cardsCur.rows[i]).ID, 0)
    /\ \A i, j \in Yielded(cardsCur) :
          i # j => CardOf(cardsCur.rows[i]).ID # CardOf(cardsCur.rows[j]).ID
    /\ cardsCur.done =>
          \A id \in DOMAIN cards :
              ~Tombstoned(id, 0) =>
                  \E i \in Yielded(cardsCur) : CardOf(cardsCur.rows[i]).ID = id

\* The cursor was read to its end; one card was left out for its type-0
\* grave, and a yielded card has a grave of type 1 or 2.
C2_Witness ==
    /\ cardsCur.done
    /\ \E id \in DOMAIN cards : Tombstoned(id, 0)
    /\ \E i \in Yielded(cardsCur) :
          \/ Tombstoned(CardOf(cardsCur.rows[i]).ID, 1)
          \/ Tombstoned(CardOf(cardsCur.rows[i]).ID, 2)

\* C3: the Reviews() cursor yields a revlog row if and only if its cid has no
\* graves row of type 0, and yields it exactly once.
C3_ReviewsExactlyOfLiveCards ==
    /\ \A i \in Yielded(reviewsCur) :
          /\ reviewsCur.rows[i].id.v \in DOMAIN revlog
          /\ ReviewOf(reviewsCur.rows[i]).CardID =
                 revlog[reviewsCur.rows[i].id.v].cid
          /\ ~Tombstoned(ReviewOf(reviewsCur.rows[i]).CardID, 0)
    /\ \A i, j \in Yielded(reviewsCur) :
          i # j => reviewsCur.rows[i].id # reviewsCur.rows[j].id
    /\ reviewsCur.done =>
          \A id \in DOMAIN revlog :
              ~Tombstoned(revlog[id].cid, 0) =>
                  \E i \in Yielded(reviewsCur) : reviewsCur.rows[i].id.v = id

\* The cursor was read to its end; a review of a tombstoned card was left
\* out, and a yielded review has an id that is itself the oid of a type-0
\* grave.
C3_Witness ==
    /\ reviewsCur.done
    /\ \E id \in DOMAIN revlog : Tombstoned(revlog[id].cid, 0)
    /\ \E i \in Yielded(reviewsCur) : Tombstoned(reviewsCur.rows[i].id.v, 0)

\* C4: when Collection() returns successfully, every deck of the returned
\* Decks map has its Config set, to the entry of DeckConfigs under its
\* ConfigID, and that config's ID is the deck's ConfigID.
C4_DecksResolved ==
    (ret.op = "Collection" /\ ret.status = "ok") =>
        \A d \in DOMAIN ret.val.v.Decks :
            /\ ret.val.v.Decks[d].Config # Nil
            /\ ret.val.v.Decks[d].ConfigID \in DOMAIN ret.val.v.DeckConfigs
            /\ ret.val.v.Decks[d].Config.v =
                   ret.val.v.DeckConfigs[ret.val.v.Decks[d].ConfigID]
            /\ ret.val.v.Decks[d].Config.v.ID = ret.val.v.Decks[d].ConfigID

\* Collection() succeeded with a deck whose config was stored in the JSON
\* under a key other than its id.
C4_Witness ==
    /\ ret.op = "Collection"
    /\ ret.status = "ok"
    /\ \E d \in DOMAIN ret.val.v.Decks :
          ret.val.v.Decks[d].Config.v.Name # ret.val.v.Decks[d].Config.v.ID

\* A deck of the decks column that is no deck tombstone and whose conf is the
\* id of no entry of the dconf column.
LiveDeckDangles ==
    \E k \in DOMAIN col.decks :
        /\ ~Tombstoned(col.decks[k].id, 2)
        /\ \A k2 \in DOMAIN col.decks : col.decks[k2].id = col.decks[k].id => k2 = k
        /\ \A j \in DOMAIN col.dconf : col.dconf[j].id # col.decks[k].conf

\* Every deck of the decks column that is no deck tombstone has a conf that
\* is the id of an entry of the dconf column.
LiveDecksResolve ==
    \A k \in DOMAIN col.decks :
        ~Tombstoned(col.decks[k].id, 2) =>
            \E j \in DOMAIN col.dconf : col.dconf[j].id = col.decks[k].conf

\* C5: if a non-tombstoned deck references a config ID that is no key of
\* DeckConfigs, Collection() returns an error and no Collection value.
C5_DanglingReturnsError ==
    (ret.op = "Collection" /\ LiveDeckDangles) =>
        (ret.status = "error" /\ ret.val = Nil)

\* C6: with one or more graves rows of type 2 and every remaining deck's
\* config resolvable, Collection() succeeds and its Decks map holds exactly
\* the decoded decks whose ID is the oid of no type-2 grave.
C6_DeckTombstonesDropped ==
    (/\ ret.op = "Collection"
     /\ \E i \in DOMAIN graves : graves[i].type = 2
     /\ LiveDecksResolve) =>
        /\ ret.status = "ok"
        /\ DOMAIN ret.val.v.Decks =
               { col.decks[k].id : k \in DOMAIN col.decks } \
               { graves[i].oid : i \in { n \in DOMAIN graves : graves[n].type = 2 } }

\* C7: a dangling config reference on a deck whose ID is a type-2 grave never
\* makes Collection() fail.
C7_TombstonedDeckNotResolved ==
    (/\ ret.op = "Collection"
     /\ LiveDecksResolve
     /\ \E k \in DOMAIN col.decks :
           /\ Tombstoned(col.decks[k].id, 2)
           /\ \A j \in DOMAIN col.dconf : col.dconf[j].id # col.decks[k].conf) =>
        ret.status = "ok"

\* C8: for every yielded card of type 0 (New) the derived Due is exactly 0
\* (the instant 0 seconds after the epoch), whatever the raw due.
C8_NewCardDueIsZero ==
    (ret.op = "Card" /\ ~ret.err /\ ret.val.Type = 0) => ret.val.Due = Ptr(0)

\* C9: for every yielded card, Due and OriginalDue follow one rule, from raw
\* due and raw odue: type 1 gives the raw value as seconds since the epoch,
\* type 2 gives col.crt + raw * 86400 seconds.
C9_DueByType ==
    \A i \in Yielded(cardsCur) :
        LET c == CardOf(cardsCur.rows[i])
        IN  /\ c.Type = 1 =>
                /\ c.Due = Ptr(cards[c.ID].due)
                /\ c.OriginalDue = Ptr(cards[c.ID].odue)
            /\ c.Type = 2 =>
                /\ c.Due = Ptr(col.crt + cards[c.ID].due * 86400)
                /\ c.OriginalDue = Ptr(col.crt + cards[c.ID].odue * 86400)

\* Card() returned a Review-type card whose due and odue differ, after the
\* cursor yielded a Learning-type card.
C9_Witness ==
    /\ ret.op = "Card"
    /\ ~ret.err
    /\ ret.val.Type = 2
    /\ ret.val.Due # ret.val.OriginalDue
    /\ \E i \in Yielded(cardsCur) : CardOf(cardsCur.rows[i]).Type = 1

\* C10: for every yielded card the derived Interval is never negative: raw
\* ivl = -N (N > 0) gives N seconds, raw ivl = D > 0 gives D * 86400 seconds,
\* raw ivl = 0 gives an unset interval.
C10_CardIntervalSign ==
    \A i \in Yielded(cardsCur) :
        LET c == CardOf(cardsCur.rows[i])
            raw == cards[c.ID].ivl
        IN  /\ raw < 0 => c.Interval = Ptr(-raw)
            /\ raw > 0 => c.Interval = Ptr(raw * 86400)
            /\ raw = 0 => c.Interval = Nil
            /\ c.Interval # Nil => c.Interval.v >= 0

\* Card() returned a card stored with a negative interval, after the cursor
\* yielded one stored with a positive interval.
C10_Witness ==
    /\ ret.op = "Card"
    /\ ~ret.err
    /\ cards[ret.val.ID].ivl < 0
    /\ ret.val.Interval = Ptr(-cards[ret.val.ID].ivl)
    /\ \E i \in Yielded(cardsCur) : cards[CardOf(cardsCur.rows[i]).ID].ivl > 0

\* The sign rule of a stored interval: -N stands for N seconds, D > 0 for D
\* days.
SignRule(raw) == IF raw < 0 THEN -raw ELSE raw * 86400

\* C11: every yielded review's Interval is the sign rule applied to its raw
\* ivl alone, its LastInterval the sign rule applied to its raw lastIvl alone,
\* and neither is negative, whatever the signs of the two raw values.
C11_ReviewIntervalsBySignRule ==
    (ret.op = "Review" /\ ~ret.err) =>
        LET raw == revlog[reviewsCur.rows[reviewsCur.pos].id.v]
        IN  /\ ret.val.Interval = SignRule(raw.ivl)
            /\ ret.val.LastInterval = SignRule(raw.lastIvl)
            /\ ret.val.Interval >= 0
            /\ ret.val.LastInterval >= 0

\* ------------------------------------------------------------ open and release
OpenOps == {"ReadFile", "ReadBytes", "ReadReader"}

\* The archive has a zip directory and sound members collection.anki2 and
\* media.
ValidArchive ==
    archive.path = "zip" /\ archive.sqlite = "ok" /\ archive.media = "ok"

\* The last call was an Apkg.Close that returned, and the environment made
\* none of its releases fail.
CloseReturnedUnhindered ==
    /\ ret.op = "Close"
    /\ ret.status = "returned"
    /\ ret.rmErr # "EPERM"
    /\ ret.engErr # "engine"
    /\ ret.zipErr # "EIO"

\* C12: for a valid archive, ReadFile, ReadBytes and ReadReader return a
\* handle and fail only if the environment refuses the scratch file or the
\* engine connection; and the first Close() of a handle so opened returns no
\* error unless the environment makes a release fail, whether or not
\* Collection, Notes, Cards or Reviews were used and their cursors closed.
C12_ValidArchiveOpensAndCloses ==
    /\ (ret.op \in OpenOps /\ ValidArchive) =>
          /\ ret.handle
          /\ ret.err \in OpenFaults
          /\ ret.err = "none" => (apkg.db # Nil /\ scratch = {TmpName})
    /\ (CloseReturnedUnhindered /\ ValidArchive /\ apkg.db # Nil
            /\ ret.prev = "no") =>
          ret.err = "none"

\* The first Close() of a handle from ReadFile returned no error with the
\* notes cursor left open on its first row, the cards cursor closed by its
\* caller, and Collection() never called.
C12_Witness ==
    /\ ret.op = "Close"
    /\ ret.prev = "no"
    /\ ret.err = "none"
    /\ apkg.closer = "closed"
    /\ apkg.db # Nil
    /\ notesCur.st = "open"
    /\ notesCur.pos = 1
    /\ cardsCur.st = "closed"
    /\ ~cardsCur.done
    /\ reviewsCur.st = "none"

\* C13: after a Close() that returned no error, a second Close() returns no
\* error and changes nothing.
C13_SecondCloseIsNoop ==
    (CloseReturnedUnhindered /\ ret.prev = "ok") =>
        (ret.err = "none" /\ ~ret.changed)

\* C14: opening a well-formed container that has no member collection.anki2
\* fails with that error, and no scratch file is created.
C14_NoDatabaseMember ==
    (ret.op \in OpenOps /\ archive.path = "zip" /\ archive.sqlite = "absent") =>
        /\ ret.err = "nosqlite"
        /\ apkg.db = Nil
        /\ scratch = {}

\* ReadFile was called on an archive that lacks only collection.anki2.
C14_Witness ==
    /\ ret.op = "ReadFile"
    /\ archive.path = "zip"
    /\ archive.sqlite = "absent"
    /\ archive.media = "ok"
    /\ ret.err = "nosqlite"

\* C15: ReadFile on a path with no file fails with the error of the
\* underlying open and returns no handle.
C15_MissingPath ==
    (ret.op = "ReadFile" /\ archive.path = "missing") =>
        /\ ret.err = "open"
        /\ ~ret.handle
        /\ apkg.st = "nil"
        /\ scratch = {}

\* ReadFile was called on a path with no file.
C15_Witness ==
    /\ ret.op = "ReadFile"
    /\ archive.path = "missing"
    /\ ~ret.handle

\* C16: when Read* returns a handle together with an error (the index
\* build, the media map decode, the scratch write or the engine connection
\* failed), Close() on that handle does not crash and afterwards no scratch
\* file created by that open exists.
C16_ReleaseAfterFailedOpen ==
    (ret.op = "Close" /\ apkg.st = "live" /\ apkg.db = Nil) =>
        /\ ret.status = "returned"
        /\ scratch = {}

\* C17: Apkg.Close() attempts the release of the database adapter and then
\* that of the archive file, each when it is set, even when the first
\* fails; and the error it returns is that of the first release that failed.
C17_CloseReturnsFirstFailure ==
    (ret.op = "Close" /\ ret.status = "returned") =>
        /\ apkg.db # Nil => ret.dbErr # "skipped"
        /\ apkg.closer # "nil" => ret.zipErr # "skipped"
        /\ IsErr(ret.dbErr) => ret.err = ret.dbErr
        /\ (~IsErr(ret.dbErr) /\ IsErr(ret.zipErr)) => ret.err = ret.zipErr
        /\ (~IsErr(ret.dbErr) /\ ~IsErr(ret.zipErr)) => ret.err = "none"

\* C18: DB.Close() attempts the close of the engine handle even when the
\* removal of the scratch file fails, and whenever that removal fails the
\* error DB.Close() returns is the removal's, also when the engine close
\* fails as well.
C18_RemovalFailureSurfaced ==
    (ret.op = "Close" /\ ret.status = "returned" /\ apkg.db # Nil) =>
        /\ ret.engErr # "skipped"
        /\ IsErr(ret.rmErr) => ret.dbErr = ret.rmErr

NoteUnder == notes[notesCur.rows[notesCur.pos].id.v]

CardUnder == cards[cardsCur.rows[cardsCur.pos].id.v]

ReviewUnder == revlog[reviewsCur.rows[reviewsCur.pos].id.v]

\* On an open database the three query calls return no error, whatever the
\* rows hold; Note(), Card() and Review() on a row return an error exactly
\* when that row holds a value its column's type cannot take, and otherwise
\* the record of that row.
DecodeErrorsArePerRow ==
    /\ ret.op \in {"Notes", "Cards", "Reviews"} => ~ret.err
    /\ (ret.op = "Note" /\ RowsScannable(notesCur)) =>
          /\ ret.err <=> NoteUnder.mod.k = "text"
          /\ ~ret.err => ret.val = [ID |-> NoteUnder.id,
                                    Modified |-> Ptr(NoteUnder.mod.v)]
    /\ (ret.op = "Card" /\ RowsScannable(cardsCur)) =>
          /\ ret.err <=> CardUnder.mod.k = "text"
          /\ ~ret.err => /\ ret.val.ID = CardUnder.id
                         /\ ret.val.Modified = Ptr(CardUnder.mod.v)
    /\ (ret.op = "Review" /\ RowsScannable(reviewsCur)) =>
          /\ ret.err <=> ReviewUnder.time = Null
          /\ ~ret.err => /\ ret.val.Timestamp = Ptr(ReviewUnder.id)
                         /\ ret.val.ReviewTime = ReviewUnder.time.v

\* A Next() that follows a decode error moves to the next row when there is
\* one, and returns false at the end.
NextAfterDecodeError ==
    /\ (ret.op = "Note" /\ ret.err /\ RowsScannable(notesCur)
            /\ ret'.op = "Notes.Next") =>
          /\ ret'.ok = (notesCur.pos < Len(notesCur.rows))
          /\ ret'.ok => notesCur' = [notesCur EXCEPT !.pos = notesCur.pos + 1]
    /\ (ret.op = "Card" /\ ret.err /\ RowsScannable(cardsCur)
            /\ ret'.op = "Cards.Next") =>
          /\ ret'.ok = (cardsCur.pos < Len(cardsCur.rows))
          /\ ret'.ok => cardsCur' = [cardsCur EXCEPT !.pos = cardsCur.pos + 1]
    /\ (ret.op = "Review" /\ ret.err /\ RowsScannable(reviewsCur)
            /\ ret'.op = "Reviews.Next") =>
          /\ ret'.ok = (reviewsCur.pos < Len(reviewsCur.rows))
          /\ ret'.ok => reviewsCur' = [reviewsCur EXCEPT !.pos = reviewsCur.pos + 1]

\* C20: the cursors fail lazily and per row: Notes(), Cards() and Reviews()
\* do not fail because a row holds a value that cannot be coerced; the error
\* is returned only by the Note(), Card() or Review() call made on that row;
\* and after that error Next() still advances and the following rows decode
\* normally.
C20_CursorsFailLazilyPerRow ==
    []DecodeErrorsArePerRow /\ [][NextAfterDecodeError]_vars

\* Note() returned the record of the second row of a cursor whose first row
\* does not decode.
C20_Witness ==
    /\ ret.op = "Note"
    /\ ~ret.err
    /\ notesCur.st = "open"
    /\ notesCur.pos = 2
    /\ notes[notesCur.rows[1].id.v].mod.k = "text"

\* ------------------------------------------------------------ cursors after release
\* C21: once Apkg.Close() has released the database and its scratch file,
\* every later call on a cursor that was open at that moment returns false
\* (Next) or an error (Note, Card, Review): no record is yielded any more.
C21_CursorsInvalidatedByClose ==
    (closed # "no" /\ apkg.db # Nil /\ scratch = {}) =>
        /\ ret.op \in {"Notes.Next", "Cards.Next", "Reviews.Next"} => ~ret.ok
        /\ ret.op \in {"Note", "Card", "Review"} => ret.err

\* ------------------------------------------------------------ one record per note
\* C29: the Notes() cursor yields at most one record per note ID, even when
\* graves holds several rows with that oid.
C29_NotesAtMostOncePerID ==
    \A i, j \in Yielded(notesCur) :
        i # j => NoteOf(notesCur.rows[i]).ID # NoteOf(notesCur.rows[j]).ID

\* ------------------------------------------------------------ media without member
\* C30: on a handle opened from an archive whose media map gives a name only
\* keys that name no archive member, ReadMediaFile(name) returns an error.
C30_ReadMediaFileTotal ==
    (/\ ret.op = "ReadMediaFile"
     /\ apkg.st = "live"
     /\ apkg.media # Nil) =>
        LET keys == { k \in DOMAIN archive.mediaMap :
                        archive.mediaMap[k] = ret.name }
        IN  (keys # {} /\ keys \cap archive.files = {}) =>
                ret.status = "error"

\* ------------------------------------------------------------ order of the records
\* C22: each cursor yields its records in descending ID order: of two
\* consecutive records a then b, a.ID >= b.ID for Notes, and a.ID > b.ID for
\* Cards and for Reviews (whose ID is the Timestamp decoded from revlog.id).
C22_DescendingIDs ==
    /\ \A i \in Yielded(notesCur) :
          i > 1 => NoteOf(notesCur.rows[i - 1]).ID >= NoteOf(notesCur.rows[i]).ID
    /\ \A i \in Yielded(cardsCur) :
          i > 1 => CardOf(cardsCur.rows[i - 1]).ID > CardOf(cardsCur.rows[i]).ID
    /\ \A i \in Yielded(reviewsCur) :
          i > 1 => ReviewOf(reviewsCur.rows[i - 1]).Timestamp.v
                      > ReviewOf(reviewsCur.rows[i]).Timestamp.v

\* All three cursors have yielded two records of different IDs, and the
\* notes cursor a third with the ID of its second.
C22_Witness ==
    /\ notesCur.pos = 3
    /\ NoteOf(notesCur.rows[1]).ID > NoteOf(notesCur.rows[2]).ID
    /\ NoteOf(notesCur.rows[2]).ID = NoteOf(notesCur.rows[3]).ID
    /\ cardsCur.pos = 2
    /\ CardOf(cardsCur.rows[1]).ID # CardOf(cardsCur.rows[2]).ID
    /\ reviewsCur.pos = 2
    /\ ReviewOf(reviewsCur.rows[1]).Timestamp # ReviewOf(reviewsCur.rows[2]).Timestamp

\* ------------------------------------------------------------ keys of the decoded maps
\* C24: in a Collection that Collection() returned, every entry (k, v) of the
\* Models, Decks and DeckConfigs maps has k = v.ID, whatever key of the JSON
\* object v was stored under.
C24_MapsKeyedByID ==
    (ret.op = "Collection" /\ ret.status = "ok") =>
        /\ \A k \in DOMAIN ret.val.v.Models : ret.val.v.Models[k].ID = k
        /\ \A k \in DOMAIN ret.val.v.Decks : ret.val.v.Decks[k].ID = k
        /\ \A k \in DOMAIN ret.val.v.DeckConfigs :
              ret.val.v.DeckConfigs[k].ID = k

\* A Collection was decoded whose three maps each hold an entry that the
\* JSON object stored under a key other than its id.
C24_Witness ==
    /\ ret.op = "Collection"
    /\ ret.status = "ok"
    /\ \E k \in DOMAIN col.models :
          col.models[k].id # k /\ col.models[k].id \in DOMAIN ret.val.v.Models
    /\ \E k \in DOMAIN col.decks :
          col.decks[k].id # k /\ col.decks[k].id \in DOMAIN ret.val.v.Decks
    /\ \E k \in DOMAIN col.dconf :
          col.dconf[k].id # k /\ col.dconf[k].id \in DOMAIN ret.val.v.DeckConfigs

\* ------------------------------------------------------------ field values
\* strings.Join(a, sep): the pieces with sep between neighbours.
RECURSIVE Join(_, _)
Join(a, sep) ==
    IF a = <<>> THEN <<>>
    ELSE IF Len(a) = 1 THEN a[1]
    ELSE a[1] \o <<sep>> \o Join(Tail(a), sep)

\* C23: FieldValues.Scan of a blob s succeeds, and joining the pieces it
\* yields with 0x1F gives s back exactly: empty fields, leading and trailing
\* separators and the empty blob included.
C23_FieldValuesRoundTrip ==
    (ret.op = "FieldValues.Scan" /\ scanSrc.k \in {"text", "bytes"}) =>
        /\ ~ret.err
        /\ Join(ret.val, UnitSeparator) = scanSrc.v
        /\ \A i \in DOMAIN ret.val :
              \A j \in DOMAIN ret.val[i] : ret.val[i][j] # UnitSeparator

\* A blob with a leading and a trailing separator was split into an empty
\* field, a field of one byte, and an empty field.
C23_Witness ==
    /\ ret.op = "FieldValues.Scan"
    /\ scanSrc.k = "text"
    /\ Len(scanSrc.v) = 3
    /\ scanSrc.v[1] = UnitSeparator
    /\ scanSrc.v[3] = UnitSeparator
    /\ ret.val = << <<>>, <<scanSrc.v[2]>>, <<>> >>

\* ------------------------------------------------------------ timestamps
\* C25: TimestampSeconds.Scan of a number s gives the instant s seconds
\* after the epoch; TimestampMilliseconds.Scan of a number m gives the
\* instant exactly m milliseconds after the epoch, its part below the second
\* included; of NULL both succeed and leave the timestamp unset. (Stated
\* for the numbers without fraction, as int64 or as float64.)
C25_TimestampsDecodeExactly ==
    LET whole == \/ scanSrc.k = "int64"
                 \/ scanSrc.k = "float64" /\ scanSrc.milli % 1000 = 0
        n == IF scanSrc.k = "int64" THEN scanSrc.v ELSE scanSrc.milli \div 1000
    IN  /\ (ret.op = "TimestampSeconds.Scan" /\ whole) =>
              ~ret.err /\ ret.set /\ ret.val = n
        /\ (ret.op = "TimestampMilliseconds.Scan" /\ whole) =>
              /\ ~ret.err /\ ret.set
              /\ ret.val.nsec \in 0..(NanosPerSecond - 1)
              /\ ret.val.sec * 1000 + ret.val.nsec \div 1000000 = n
              /\ ret.val.nsec % 1000000 = 0
        /\ (ret.op \in {"TimestampSeconds.Scan", "TimestampMilliseconds.Scan"}
              /\ scanSrc.k = "null") => ~ret.err /\ ~ret.set

\* ------------------------------------------------------------ identifiers
\* The strings that write an integer in decimal: digits after an optional
\* sign.
IsDecimal(s) ==
    LET digits == IF s # <<>> /\ s[1] \in {Plus, Minus} THEN Tail(s) ELSE s
    IN  digits # <<>> /\ \A i \in DOMAIN digits : digits[i] \in Digit0..Digit9

RECURSIVE Pow10(_)
Pow10(n) == IF n = 0 THEN 1 ELSE 10 * Pow10(n - 1)

\* The number a string of digits writes: each digit times the power of ten
\* of its place.
RECURSIVE PlaceValue(_, _)
PlaceValue(d, i) ==
    IF i > Len(d) THEN 0
    ELSE (d[i] - Digit0) * Pow10(Len(d) - i) + PlaceValue(d, i + 1)

\* The integer a decimal numeral writes.
DecimalValue(s) ==
    IF s[1] = Minus THEN -PlaceValue(Tail(s), 1)
    ELSE IF s[1] = Plus THEN PlaceValue(Tail(s), 1)
    ELSE PlaceValue(s, 1)

\* C26: ID.Scan decodes an integer, a float holding an integer, and a string
\* that writes an integer in decimal to that integer; NULL succeeds and
\* leaves the ID 0; a string that is no decimal numeral returns an error.
C26_IDDecoding ==
    ret.op = "ID.Scan" =>
        /\ scanSrc.k = "int64" => ~ret.err /\ ret.val = scanSrc.v
        /\ (scanSrc.k = "float64" /\ scanSrc.milli % 1000 = 0) =>
              ~ret.err /\ ret.val * 1000 = scanSrc.milli
        /\ scanSrc.k = "null" => ~ret.err /\ ret.val = 0
        /\ scanSrc.k = "text" =>
              /\ ret.err <=> ~IsDecimal(scanSrc.v)
              /\ IsDecimal(scanSrc.v) => ret.val = DecimalValue(scanSrc.v)

\* The string "-12" was decoded to the ID -12.
C26_Witness ==
    /\ ret.op = "ID.Scan"
    /\ scanSrc = Text(<<Minus, 49, 50>>)
    /\ ~ret.err
    /\ ret.val = -12

Pieces(s, sep) ==
    LET at == { i \in 1..Len(s) : s[i] = sep } \cup {0, Len(s) + 1}
    IN  { <<i, SubSeq(s, i + 1, j - 1)>> :
            <<i, j>> \in { p \in at \X at :
                             /\ p[1] < p[2]
                             /\ \A k \in at : ~(p[1] < k /\ k < p[2]) } }

\* How many pieces of s equal t.
Count(s, sep, t) == Cardinality({ p \in Pieces(s, sep) : p[2] = t })

\* Two strings hold the same tags, each as often, in any order.
SameTags(s, t) ==
    \A p \in Pieces(s, Space) \cup Pieces(t, Space) :
        Count(s, Space, p[2]) = Count(t, Space, p[2])

\* The strings made of the bytes of s in any order; those holding the tags
\* of s are among them.
Rearranged(s) ==
    { [i \in 1..Len(s) |-> s[f[i]]] : f \in Permutations(1..Len(s)) }

\* C28: Tags.Scan of a space-delimited string yields its tags sorted, so
\* that strings holding the same tags in different orders decode to equal
\* sequences.
C28_TagsOrderIndependent ==
    (ret.op = "Tags.Scan" /\ scanSrc.k \in {"text", "bytes"}) =>
        /\ ~ret.err
        /\ \A i \in 1..(Len(ret.val) - 1) : ~StringLess(ret.val[i + 1], ret.val[i])
        /\ Len(ret.val) = Cardinality(Pieces(scanSrc.v, Space))
        /\ \A p \in Pieces(scanSrc.v, Space) :
              Cardinality({ i \in DOMAIN ret.val : ret.val[i] = p[2] })
                  = Count(scanSrc.v, Space, p[2])
        /\ \A t \in Rearranged(scanSrc.v) :
              SameTags(scanSrc.v, t) => TagsScan(Text(t)).v = ret.val

\* The string "b a" was decoded to the tags a, b, as "a b" is.
C28_Witness ==
    /\ ret.op = "Tags.Scan"
    /\ scanSrc = Text(<<98, Space, 97>>)
    /\ ret.val = << <<97>>, <<98>> >>
    /\ TagsScan(Text(<<97, Space, 98>>)).v = ret.val

====
